---- MODULE Spec2Model ----
(***************************************************************************)
(* String-property service (stage 1): the String model and its derived     *)
(* properties, the Database operations over the "strings" table, the      *)
(* request handlers of the /strings router, and the translator of          *)
(* natural-language queries with its parser of the external reply.         *)
(*                                                                         *)
(* A Python str is a sequence of one-character strings.  One database      *)
(* session (one `with Session(engine)` block) is one atomic step; a        *)
(* handler that opens several sessions is several steps, and the steps of  *)
(* different requests interleave.                                          *)
(***************************************************************************)
EXTENDS Integers, Sequences, FiniteSets, TLC

VARIABLES
    store,      \* rows of table "strings", in storage (insertion) order
    nextId,     \* number of ids handed out so far by the uuid4 default factory
    now,        \* the clock read by datetime.now(timezone.utc)
    pc,         \* per request slot: where its handler stands
    req,        \* per request slot: the value the handler in flight was given
    event,      \* the step taken last and what it returned to its caller
    inp,        \* input string of the property derivation under test
    derived,    \* <<>> before String(name=inp) is constructed, <<object>> after
    params      \* request parameters the client of the query specification sends

vars == <<store, nextId, now, pc, req, event, inp, derived, params>>

\* ------------------------------------------------------------------ bounds
MaxCreates == 3     \* String objects constructed in one behaviour
MaxClock == 1       \* last clock value
MaxLen == 3         \* longest input string of the derivation specification

\* ------------------------------------------------------------- characters
Whitespace == {" ", "\t"}
UpperChars == <<"A", "B", "C", "D", "E", "F", "G", "H", "I", "J", "K", "L", "M",
               "N", "O", "P", "Q", "R", "S", "T", "U", "V", "W", "X", "Y", "Z">>
LowerChars == <<"a", "b", "c", "d", "e", "f", "g", "h", "i", "j", "k", "l", "m",
               "n", "o", "p", "q", "r", "s", "t", "u", "v", "w", "x", "y", "z">>
Digits == <<"0", "1", "2", "3", "4", "5", "6", "7", "8", "9">>

\* str.isspace for one character
isspace(c) == c \in Whitespace

\* str.lower for one character
lower_char(c) ==
    IF \E i \in DOMAIN UpperChars : UpperChars[i] = c
    THEN LowerChars[CHOOSE i \in DOMAIN UpperChars : UpperChars[i] = c]
    ELSE c

\* str.lower
lower(s) == [i \in 1..Len(s) |-> lower_char(s[i])]

\* self.name[::-1]
RECURSIVE reversed(_)
reversed(s) == IF s = <<>> THEN <<>> ELSE Append(reversed(Tail(s)), Head(s))

\* str.split() without arguments: skip a run of whitespace, then take the
\* characters up to the next whitespace as one token, until the end.
RECURSIVE skip_space(_, _)
skip_space(s, i) ==
    IF i <= Len(s) /\ isspace(s[i]) THEN skip_space(s, i + 1) ELSE i

RECURSIVE skip_token(_, _)
skip_token(s, i) ==
    IF i <= Len(s) /\ ~isspace(s[i]) THEN skip_token(s, i + 1) ELSE i

RECURSIVE split_from(_, _)
split_from(s, i) ==
    LET j == skip_space(s, i)
        k == skip_token(s, j)
    IN  IF j > Len(s) THEN <<>>
        ELSE <<SubSeq(s, j, k - 1)>> \o split_from(s, k)

\* (variant: str.split(" "), which cuts at every single space and keeps the
\* empty tokens)
split_on_space(s) ==
    LET at == SelectSeq([i \in 1..Len(s) |-> i], LAMBDA i : s[i] = " ")
        cuts == <<0>> \o at \o <<Len(s) + 1>>
    IN  [k \in 1..(Len(cuts) - 1) |-> SubSeq(s, cuts[k] + 1, cuts[k + 1] - 1)]

split(s) == split_from(s, 1)

\* collections.Counter(self.name): one pass over the characters, adding a key
\* at its first occurrence and incrementing it afterwards.
\* (variant: a key seen again is set, not incremented)
count_char_overwrite(m, c) ==
    [x \in DOMAIN m \cup {c} |-> IF x = c THEN 1 ELSE m[x]]

count_char(m, c) ==
    IF c \in DOMAIN m
    THEN [m EXCEPT ![c] = @ + 1]
    ELSE [x \in DOMAIN m \cup {c} |-> IF x = c THEN 1 ELSE m[x]]

RECURSIVE Counter_from(_, _, _)
Counter_from(s, i, m) ==
    IF i > Len(s) THEN m ELSE Counter_from(s, i + 1, count_char(m, s[i]))

Counter(s) == Counter_from(s, 1, [x \in {} |-> 0])

\* self.name.encode("utf-8"): every character of the model's alphabets is
\* ASCII, one byte each; the byte is named by its character.
encode_utf8(s) == [i \in 1..Len(s) |-> <<"byte", s[i]>>]

\* hashlib.sha256(...).hexdigest(): the digest is kept symbolic, an
\* uninterpreted function of the bytes hashed.
\* (variant: a digest salted with per-object state)
sha256_hexdigest_salted(bytes) == <<"sha256", bytes, nextId>>

sha256_hexdigest(bytes) == <<"sha256", bytes>>

\* String._calculate_properties: sets created_at and the derived fields on
\* the instance `self`; t is the clock value read.
\* (variant: the palindrome test made on the case-folded name)
_calculate_properties_casefold(self, t) ==
    LET char_count == Counter(self.name)
    IN  [self EXCEPT
            !.created_at = t,
            !.length = Len(self.name),
            !.is_palindrome = (lower(self.name) = reversed(lower(self.name))),
            !.unique_characters = Cardinality(DOMAIN char_count),
            !.word_count = Len(split(self.name)),
            !.sha256_hash = sha256_hexdigest(encode_utf8(self.name)),
            !.character_frequency_map = char_count]

_calculate_properties(self, t) ==
    LET reversed_name == reversed(self.name)
        char_count == Counter(self.name)
    IN  [self EXCEPT
            !.created_at = t,
            !.length = Len(self.name),
            !.is_palindrome = (self.name = reversed_name),
            !.unique_characters = Cardinality(DOMAIN char_count),
            !.word_count = Len(split(self.name)),
            !.sha256_hash = sha256_hexdigest(encode_utf8(self.name)),
            !.character_frequency_map = char_count]

\* String.__init__(name): the id comes from the default factory, no derived
\* field is passed by add_string, so `not self.length` holds and the
\* properties are calculated.
Unset == "unset"
String(name, id, t) ==
    _calculate_properties(
        [id |-> id, name |-> name, created_at |-> Unset, length |-> Unset,
         is_palindrome |-> Unset, unique_characters |-> Unset,
         word_count |-> Unset, sha256_hash |-> Unset,
         character_frequency_map |-> Unset], t)

\* ----------------------------------------------------------- Python values
\* Values of a filter map: request parameters are str; a translator may also
\* give int, bool or None, and its parser any object (a dict, a list).
PyStr(s) == [t |-> "str", v |-> s]
PyInt(n) == [t |-> "int", v |-> n]
PyBool(b) == [t |-> "bool", v |-> b]
PyNone == [t |-> "NoneType", v |-> <<>>]
PyDict(m) == [t |-> "dict", v |-> m]
PyList(l) == [t |-> "list", v |-> l]

\* Optional results: None is the empty sequence, an object is <<object>>.
None == <<>>
Some(x) == <<x>>

\* bool(val), the test of `if val := query.get(key)`
truthy(val) ==
    CASE val.t = "str" -> Len(val.v) > 0
      [] val.t = "int" -> val.v # 0
      [] val.t = "bool" -> val.v
      [] OTHER -> FALSE

RECURSIVE digits_of(_)
digits_of(n) ==
    IF n < 10 THEN <<Digits[n + 1]>> ELSE Append(digits_of(n \div 10), Digits[(n % 10) + 1])

\* str(val)
str(val) ==
    CASE val.t = "str" -> val.v
      [] val.t = "int" -> IF val.v < 0 THEN <<"-">> \o digits_of(-val.v) ELSE digits_of(val.v)
      [] val.t = "bool" -> IF val.v THEN <<"T", "r", "u", "e">> ELSE <<"F", "a", "l", "s", "e">>
      [] OTHER -> <<"N", "o", "n", "e">>

\* str.strip()
RECURSIVE rstrip(_)
rstrip(s) == IF s # <<>> /\ isspace(s[Len(s)]) THEN rstrip(SubSeq(s, 1, Len(s) - 1)) ELSE s

strip(s) == LET i == skip_space(s, 1) IN rstrip(SubSeq(s, i, Len(s)))

is_digit(c) == \E i \in DOMAIN Digits : Digits[i] = c
digit_value(c) == (CHOOSE i \in DOMAIN Digits : Digits[i] = c) - 1

RECURSIVE digits_value(_, _)
digits_value(s, acc) ==
    IF s = <<>> THEN acc ELSE digits_value(Tail(s), 10 * acc + digit_value(Head(s)))

\* int(val): [ok |-> TRUE, n |-> the integer] or [ok |-> FALSE] for ValueError.
\* A str is stripped of surrounding whitespace and read as an optional sign
\* followed by decimal digits.
int(val) ==
    CASE val.t = "int" -> [ok |-> TRUE, n |-> val.v]
      [] val.t = "bool" -> [ok |-> TRUE, n |-> IF val.v THEN 1 ELSE 0]
      [] val.t = "str" ->
            LET s == strip(val.v)
                signed == s # <<>> /\ s[1] \in {"+", "-"}
                body == IF signed THEN Tail(s) ELSE s
            IN  IF body # <<>> /\ \A i \in DOMAIN body : is_digit(body[i])
                THEN [ok |-> TRUE,
                      n |-> IF signed /\ s[1] = "-" THEN -digits_value(body, 0)
                            ELSE digits_value(body, 0)]
                ELSE [ok |-> FALSE, n |-> 0]
      [] OTHER -> [ok |-> FALSE, n |-> 0]

\* dict.get(key): None when the key is absent
get(query, key) == IF key \in DOMAIN query THEN query[key] ELSE PyNone

\* ---------------------------------------------------------------- Database
\* select(String).where(String.name == value), .first(): the first row in
\* storage order whose name is exactly `value`, or None.
RECURSIVE first_where_name(_, _, _)
first_where_name(rows, value, i) ==
    IF i > Len(rows) THEN 0
    ELSE IF rows[i].name = value THEN i
    ELSE first_where_name(rows, value, i + 1)

\* Database.get_string
get_string(rows, value) ==
    LET i == first_where_name(rows, value, 1)
    IN  IF i = 0 THEN None ELSE Some(rows[i])

\* (variant: no existence test, the insert is left to fail on its own)
add_string_absent_unchecked(rows, value) == TRUE

\* Database.add_string, first session: the existence test
\* `Database.get_string(value) is None`.
add_string_absent(rows, value) == get_string(rows, value) = None

\* Database.add_string, second session: session.add(new_string) and commit.
\* Table "strings" has the primary key id and no other constraint.
add_string_commit(rows, new_string) == Append(rows, new_string)

\* (variant: the row deleted is the first of the table)
delete_string_first_row(rows, value) ==
    IF first_where_name(rows, value, 1) = 0
    THEN [rows |-> rows, result |-> FALSE]
    ELSE [rows |-> Tail(rows), result |-> TRUE]

\* Database.delete_string: deletes the first row named `value`, if any.
delete_string(rows, value) ==
    LET i == first_where_name(rows, value, 1)
    IN  IF i = 0
        THEN [rows |-> rows, result |-> FALSE]
        ELSE [rows |-> SubSeq(rows, 1, i - 1) \o SubSeq(rows, i + 1, Len(rows)),
              result |-> TRUE]

\* (variant: the JSON member looked up ignoring letter case)
where_holds_casefold(clause, row) ==
    CASE clause.col = "is_palindrome" -> row.is_palindrome = clause.val
      [] clause.col = "length" /\ clause.cmp = "<=" -> row.length <= clause.val
      [] clause.col = "length" /\ clause.cmp = ">=" -> row.length >= clause.val
      [] clause.col = "word_count" -> row.word_count = clause.val
      [] clause.col = "character_frequency_map" ->
            \E k \in DOMAIN row.character_frequency_map :
                lower_char(k) = lower_char(clause.val)

\* (variant: the length bounds exclusive)
where_holds_strict(clause, row) ==
    CASE clause.col = "is_palindrome" -> row.is_palindrome = clause.val
      [] clause.col = "length" /\ clause.cmp = "<=" -> row.length < clause.val
      [] clause.col = "length" /\ clause.cmp = ">=" -> row.length > clause.val
      [] clause.col = "word_count" -> row.word_count = clause.val
      [] clause.col = "character_frequency_map" ->
            clause.val \in DOMAIN row.character_frequency_map
            /\ row.character_frequency_map[clause.val] >= 1

\* One .where(...) clause of the statement, evaluated on a row.
\* character_frequency_map[val].as_integer() >= 1 extracts the JSON member
\* named val: NULL (never >= 1) when the map has no such key.
where_holds(clause, row) ==
    CASE clause.col = "is_palindrome" -> row.is_palindrome = clause.val
      [] clause.col = "length" /\ clause.cmp = "<=" -> row.length <= clause.val
      [] clause.col = "length" /\ clause.cmp = ">=" -> row.length >= clause.val
      [] clause.col = "word_count" -> row.word_count = clause.val
      [] clause.col = "character_frequency_map" ->
            clause.val \in DOMAIN row.character_frequency_map
            /\ row.character_frequency_map[clause.val] >= 1

\* (variant: the rows newest first)
exec_all_reversed(rows, statement) ==
    reversed(SelectSeq(rows, LAMBDA row : \A i \in DOMAIN statement : where_holds(statement[i], row)))

\* (variant: the clauses joined by OR)
exec_any(rows, statement) ==
    SelectSeq(rows, LAMBDA row : \E i \in DOMAIN statement : where_holds(statement[i], row))

\* session.exec(statement).all(): the rows, in storage order, on which every
\* where clause holds.
exec_all(rows, statement) ==
    SelectSeq(rows, LAMBDA row : \A i \in DOMAIN statement : where_holds(statement[i], row))

\* Database.query_string, one key at a time.  Each step takes and gives
\* [error, statement]: error is None or <<the key whose ValueError is raised>>.
BoolWords == {<<"t", "r", "u", "e">>, <<"f", "a", "l", "s", "e">>, <<"1">>, <<"0">>}
TrueWords == {<<"t", "r", "u", "e">>, <<"1">>}

filter_is_palindrome(st, query) ==
    LET val == get(query, "is_palindrome")
        lower_val == lower(str(val))
    IN  IF st.error # None \/ ~truthy(val) THEN st
        ELSE IF lower_val \notin BoolWords
        THEN [st EXCEPT !.error = Some("is_palindrome")]
        ELSE [st EXCEPT !.statement =
                Append(@, [col |-> "is_palindrome", cmp |-> "==", val |-> lower_val \in TrueWords])]

filter_max_length(st, query) ==
    LET val == get(query, "max_length")
    IN  IF st.error # None \/ ~truthy(val) THEN st
        ELSE IF ~int(val).ok
        THEN [st EXCEPT !.error = Some("max_length")]
        ELSE [st EXCEPT !.statement =
                Append(@, [col |-> "length", cmp |-> "<=", val |-> int(val).n])]

filter_min_length(st, query) ==
    LET val == get(query, "min_length")
    IN  IF st.error # None \/ ~truthy(val) THEN st
        ELSE IF ~int(val).ok
        THEN [st EXCEPT !.error = Some("min_length")]
        ELSE [st EXCEPT !.statement =
                Append(@, [col |-> "length", cmp |-> ">=", val |-> int(val).n])]

filter_word_count(st, query) ==
    LET val == get(query, "word_count")
    IN  IF st.error # None \/ ~truthy(val) THEN st
        ELSE IF ~int(val).ok
        THEN [st EXCEPT !.error = Some("word_count")]
        ELSE [st EXCEPT !.statement =
                Append(@, [col |-> "word_count", cmp |-> "==", val |-> int(val).n])]

filter_contains_character(st, query) ==
    LET val == get(query, "contains_character")
    IN  IF st.error # None \/ ~truthy(val) THEN st
        ELSE IF val.t # "str" \/ Len(val.v) # 1
        THEN [st EXCEPT !.error = Some("contains_character")]
        ELSE [st EXCEPT !.statement =
                Append(@, [col |-> "character_frequency_map", cmp |-> ">=", val |-> val.v[1]])]

\* The text of the ValueError raised for `key`: its wording, and the key and
\* the value the wording names (the contains_character wording names no value).
ValueError_message(key, val) ==
    CASE key = "is_palindrome" ->
            [text |-> "Invalid value for 'key': 'val'. Must be true/false/1/0.",
             key |-> Some(key), val |-> Some(val)]
      [] key \in {"max_length", "min_length", "word_count"} ->
            [text |-> "Invalid value for 'key': 'val'. Must be an integer.",
             key |-> Some(key), val |-> Some(val)]
      [] key = "contains_character" ->
            [text |-> "The 'contains_character' filter requires exactly one character.",
             key |-> Some(key), val |-> None]

\* (variant: a key outside the five recognized ones raises)
query_string_known_keys(rows, query) ==
    LET st == filter_contains_character(
                filter_word_count(
                  filter_min_length(
                    filter_max_length(
                      filter_is_palindrome([error |-> None, statement |-> <<>>], query),
                      query), query), query), query)
        known == {"is_palindrome", "max_length", "min_length", "word_count",
                  "contains_character"}
    IN  IF ~(DOMAIN query \subseteq known)
        THEN [ok |-> FALSE, key |-> CHOOSE k \in DOMAIN query : k \notin known, rows |-> <<>>,
              message |-> [text |-> "Unknown filter", key |-> None, val |-> None]]
        ELSE IF st.error # None
        THEN [ok |-> FALSE, key |-> st.error[1], rows |-> <<>>,
              message |-> ValueError_message(st.error[1], get(query, st.error[1]))]
        ELSE [ok |-> TRUE, key |-> "", rows |-> exec_all(rows, st.statement)]

\* Database.query_string: [ok |-> TRUE, rows] or, for a ValueError,
\* [ok |-> FALSE, key |-> the key whose test raised, message].  The rows are
\* read by session.exec only when no test raised.
query_string(rows, query) ==
    LET st == filter_contains_character(
                filter_word_count(
                  filter_min_length(
                    filter_max_length(
                      filter_is_palindrome([error |-> None, statement |-> <<>>], query),
                      query), query), query), query)
    IN  IF st.error # None
        THEN [ok |-> FALSE, key |-> st.error[1], rows |-> <<>>,
              message |-> ValueError_message(st.error[1], get(query, st.error[1]))]
        ELSE [ok |-> TRUE, key |-> "", rows |-> exec_all(rows, st.statement)]

\* ------------------------------------------------------------- translator
\* The raw text of the external service is a sequence of tokens [k, v]:
\*   "fence"  the three backquotes          "word"   a run of prose, v its text
\*   "ws"     whitespace (blank, newline)   "quote"  one double quote
\*   "lit"    the text of one literal, v = [escaped, json, python, value]:
\*            whether its inner quotes are written \", whether json.loads and
\*            ast.literal_eval accept the text, and the object it denotes.
\* No token but a literal marked escaped holds a backslash.
Fence == [k |-> "fence", v |-> "fence"]
Ws == [k |-> "ws", v |-> "\n"]
Quote == [k |-> "quote", v |-> "\""]
Word(w) == [k |-> "word", v |-> w]
Lit(escaped, json, python, value) ==
    [k |-> "lit", v |-> [escaped |-> escaped, json |-> json, python |-> python, value |-> value]]

\* index of the first fence at or after position j, 0 when there is none
RECURSIVE next_fence(_, _)
next_fence(tokens, j) ==
    IF j > Len(tokens) THEN 0
    ELSE IF tokens[j].k = "fence" THEN j
    ELSE next_fence(tokens, j + 1)

\* the text matched by \s*(.*?)\s* between two fences gives group 1 without
\* the whitespace at its ends; str.strip() on a token sequence
RECURSIVE lstrip_ws(_)
lstrip_ws(tokens) ==
    IF tokens # <<>> /\ Head(tokens).k = "ws" THEN lstrip_ws(Tail(tokens)) ELSE tokens

RECURSIVE rstrip_ws(_)
rstrip_ws(tokens) ==
    IF tokens # <<>> /\ tokens[Len(tokens)].k = "ws"
    THEN rstrip_ws(SubSeq(tokens, 1, Len(tokens) - 1))
    ELSE tokens

strip_ws(tokens) == rstrip_ws(lstrip_ws(tokens))

\* re.sub(r"```json\s*(.*?)\s*```", r"\1", text, flags=re.DOTALL): every
\* fence followed at once by the word json, up to the next fence, is replaced
\* by the text between them; scanning resumes after the closing fence.
RECURSIVE sub_json_fence(_)
sub_json_fence(tokens) ==
    IF tokens = <<>> THEN <<>>
    ELSE LET opens == /\ Len(tokens) >= 2
                      /\ tokens[1].k = "fence"
                      /\ tokens[2].k = "word"
                      /\ tokens[2].v = "json"
             close == IF opens THEN next_fence(tokens, 3) ELSE 0
         IN  IF close # 0
             THEN strip_ws(SubSeq(tokens, 3, close - 1))
                    \o sub_json_fence(SubSeq(tokens, close + 1, Len(tokens)))
             ELSE <<Head(tokens)>> \o sub_json_fence(Tail(tokens))

\* re.sub(r"```\s*(.*?)\s*```", r"\1", text, flags=re.DOTALL): the same for
\* every remaining pair of fences; a word after the opening fence stays in
\* the text.
RECURSIVE sub_fence(_)
sub_fence(tokens) ==
    IF tokens = <<>> THEN <<>>
    ELSE LET opens == tokens[1].k = "fence"
             close == IF opens THEN next_fence(tokens, 2) ELSE 0
         IN  IF close # 0
             THEN strip_ws(SubSeq(tokens, 2, close - 1))
                    \o sub_fence(SubSeq(tokens, close + 1, Len(tokens)))
             ELSE <<Head(tokens)>> \o sub_fence(Tail(tokens))

\* The two str.replace calls (backslash-quote becomes a quote, backslash-n
\* is dropped): the escaped quotes of a literal become plain quotes.
unescape(tokens) ==
    [i \in 1..Len(tokens) |->
        IF tokens[i].k = "lit" THEN [tokens[i] EXCEPT !.v.escaped = FALSE] ELSE tokens[i]]

\* cleaned[1:-1] when cleaned starts and ends with a double quote
unquote(tokens) ==
    IF tokens # <<>> /\ tokens[1].k = "quote" /\ tokens[Len(tokens)].k = "quote"
    THEN SubSeq(tokens, 2, Len(tokens) - 1)
    ELSE tokens

\* json.loads / ast.literal_eval: the text is one literal in the parser's
\* syntax, whitespace around it allowed; anything else raises.
loads(tokens, syntax) ==
    LET body == strip_ws(tokens)
    IN  IF /\ Len(body) = 1
           /\ body[1].k = "lit"
           /\ ~body[1].v.escaped
           /\ (IF syntax = "json" THEN body[1].v.json ELSE body[1].v.python)
        THEN [ok |-> TRUE, value |-> body[1].v.value]
        ELSE [ok |-> FALSE, value |-> PyNone]

\* NaturalLangFilter.parse_gemini_json: response_text is None or <<tokens>>.
\* Whatever json.loads gives is returned, else whatever ast.literal_eval
\* gives; every exception (the TypeError of re.sub on None included) gives {}.
parse_gemini_json(response_text) ==
    IF response_text = None THEN PyDict([key \in {} |-> PyNone])
    ELSE LET cleaned == unquote(strip_ws(unescape(sub_fence(sub_json_fence(response_text[1])))))
             strict == loads(cleaned, "json")
             literal == loads(cleaned, "python")
         IN  IF strict.ok THEN strict.value
             ELSE IF literal.ok THEN literal.value
             ELSE PyDict([key \in {} |-> PyNone])

\* The replacement fields of the f-string `prompt`: the braces of the example
\* dictionary open a field whose expression is the string "contains_character"
\* and whose format specification is the rest of the dictionary; the last
\* field is {query}.
prompt_fields(query) ==
    <<[value |-> "contains_character", format_spec |-> "\"a\", \"word_count\": 3, ..."],
      [value |-> query, format_spec |-> ""]>>

\* str.__format__(format_spec) raises ValueError ("Invalid format specifier")
\* unless the specification is one of the format mini-language; of the two
\* above only the empty one is.
format_ok(format_spec) == format_spec \in {"", "s"}

\* prompt = f"""...""": ok, or the ValueError of a field's format
prompt(query) ==
    [ok |-> \A i \in DOMAIN prompt_fields(query) : format_ok(prompt_fields(query)[i].format_spec)]

\* NaturalLangFilter.extract_context(query), `outcome` being what query_json
\* does when called: [raised |-> TRUE] or [raised |-> FALSE, text].  The
\* prompt is built before the try block, so its ValueError leaves the method;
\* inside the block every exception gives {}.
extract_context(query, outcome) ==
    IF ~prompt(query).ok
    THEN [raised |-> TRUE, called |-> FALSE, value |-> PyNone]
    ELSE IF outcome.raised
    THEN [raised |-> FALSE, called |-> TRUE, value |-> PyDict([key \in {} |-> PyNone])]
    ELSE [raised |-> FALSE, called |-> TRUE, value |-> parse_gemini_json(outcome.text)]

\* ------------------------------------------- translator (rules, src/main.py)
\* The single-file service of src/main.py has the same String, Database and
\* handlers, and a NaturalLangFilter of token patterns (spaCy Matcher).
\* nlp(text): the tokens of a sentence; the sentences of the model have no
\* punctuation, so that the tokens are the whitespace-separated words.
nlp(text) == split(text)

\* the LOWER attributes the patterns ask of consecutive tokens; the first
\* token of pattern_palindrome and the second of pattern_contains_char are
\* optional ("OP": "?"), so one token decides the match
pattern_palindrome ==
    {<<"p", "a", "l", "i", "n", "d", "r", "o", "m", "e">>}

pattern_word_count ==
    <<{<<"c", "o", "u", "n", "t">>,
       <<"n", "u", "m", "b", "e", "r">>,
       <<"h", "o", "w">>,
       <<"m", "a", "n", "y">>},
      {<<"w", "o", "r", "d", "s">>,
       <<"w", "o", "r", "d">>}>>

pattern_max_length ==
    <<{<<"l", "o", "n", "g", "e", "s", "t">>,
       <<"m", "a", "x">>,
       <<"m", "a", "x", "i", "m", "u", "m">>,
       <<"l", "o", "n", "g", "e", "r">>},
      {<<"w", "o", "r", "d">>,
       <<"l", "e", "n", "g", "t", "h">>,
       <<"s", "i", "z", "e">>,
       <<"c", "h", "a", "r", "a", "c", "t", "e", "r", "s">>}>>

pattern_min_length ==
    <<{<<"s", "h", "o", "r", "t", "e", "s", "t">>,
       <<"m", "i", "n">>,
       <<"m", "i", "n", "i", "m", "u", "m">>,
       <<"s", "h", "o", "r", "t", "e", "r">>},
      {<<"w", "o", "r", "d">>,
       <<"l", "e", "n", "g", "t", "h">>,
       <<"s", "i", "z", "e">>,
       <<"c", "h", "a", "r", "a", "c", "t", "e", "r", "s">>}>>

pattern_contains_char ==
    {<<"c", "o", "n", "t", "a", "i", "n">>,
     <<"c", "o", "n", "t", "a", "i", "n", "s">>,
     <<"h", "a", "v", "e">>,
     <<"i", "n", "c", "l", "u", "d", "e", "s">>,
     <<"i", "n", "c", "l", "u", "d", "i", "n", "g">>}

\* self.matcher(doc) has a match of a one-token pattern
matches_one(doc, first) ==
    \E i \in DOMAIN doc : lower(doc[i]) \in first

\* self.matcher(doc) has a match of a two-token pattern: two consecutive
\* tokens
matches_pair(doc, pattern) ==
    \E i \in 1..(Len(doc) - 1) :
        lower(doc[i]) \in pattern[1] /\ lower(doc[i + 1]) \in pattern[2]

\* token.like_num: digits, or a number word (of which the model has two)
NumberWords ==
    {<<"t", "h", "r", "e", "e">>,
     <<"t", "e", "n">>}
like_num(token) ==
    \/ token # <<>> /\ \A i \in DOMAIN token : is_digit(token[i])
    \/ lower(token) \in NumberWords

\* NaturalLangFilter._extract_number: the int of the first token that looks
\* like a number and that int() accepts, or None
RECURSIVE _extract_number(_)
_extract_number(doc) ==
    IF doc = <<>> THEN None
    ELSE IF like_num(Head(doc)) /\ int(PyStr(Head(doc))).ok
    THEN Some(int(PyStr(Head(doc))).n)
    ELSE _extract_number(Tail(doc))

\* token.is_alpha
is_alpha(token) ==
    /\ token # <<>>
    /\ \A i \in DOMAIN token :
          \E j \in DOMAIN UpperChars : token[i] \in {UpperChars[j], LowerChars[j]}

\* NaturalLangFilter._extract_character: the first one-letter token, or None
RECURSIVE _extract_character(_)
_extract_character(doc) ==
    IF doc = <<>> THEN None
    ELSE IF Len(Head(doc)) = 1 /\ is_alpha(Head(doc)) THEN Some(Head(doc))
    ELSE _extract_character(Tail(doc))

\* self.SYMBOLS (the sign of inequality is written != here)
SYMBOLS ==
    [w \in {<<"g", "r", "e", "a", "t", "e", "r">>,
             <<"m", "o", "r", "e">>,
             <<"a", "b", "o", "v", "e">>,
             <<"h", "i", "g", "h", "e", "r">>,
             <<"l", "e", "s", "s">>,
             <<"s", "m", "a", "l", "l", "e", "r">>,
             <<"b", "e", "l", "o", "w">>,
             <<"u", "n", "d", "e", "r">>,
             <<"e", "q", "u", "a", "l">>,
             <<"e", "q", "u", "a", "l", "s">>,
             <<"s", "a", "m", "e">>,
             <<"n", "o", "t">>,
             <<"d", "i", "f", "f", "e", "r", "e", "n", "t">>,
             <<"u", "n", "e", "q", "u", "a", "l">>} |->
        CASE w \in {<<"g", "r", "e", "a", "t", "e", "r">>, <<"m", "o", "r", "e">>, <<"a", "b", "o", "v", "e">>, <<"h", "i", "g", "h", "e", "r">>} -> ">"
          [] w \in {<<"l", "e", "s", "s">>, <<"s", "m", "a", "l", "l", "e", "r">>, <<"b", "e", "l", "o", "w">>, <<"u", "n", "d", "e", "r">>} -> "<"
          [] w \in {<<"e", "q", "u", "a", "l">>, <<"e", "q", "u", "a", "l", "s">>, <<"s", "a", "m", "e">>} -> "="
          [] w \in {<<"n", "o", "t">>, <<"d", "i", "f", "f", "e", "r", "e", "n", "t">>, <<"u", "n", "e", "q", "u", "a", "l">>} -> "!="]

\* token.lemma_ of a lower-case token: the base form of the inflected words
\* of the sentences below, the token itself otherwise
lemma_(token) ==
    CASE token = <<"s", "t", "r", "i", "n", "g", "s">> -> <<"s", "t", "r", "i", "n", "g">>
      [] token = <<"w", "o", "r", "d", "s">> -> <<"w", "o", "r", "d">>
      [] token = <<"c", "h", "a", "r", "a", "c", "t", "e", "r", "s">> -> <<"c", "h", "a", "r", "a", "c", "t", "e", "r">>
      [] token = <<"i", "s">> -> <<"b", "e">>
      [] token = <<"l", "o", "n", "g", "e", "r">> -> <<"l", "o", "n", "g">>
      [] token = <<"c", "o", "n", "t", "a", "i", "n", "s">> -> <<"c", "o", "n", "t", "a", "i", "n">>
      [] OTHER -> token

\* NaturalLangFilter.parse_filter_command: the symbol of the first token
\* whose lemma is a key of SYMBOLS, or None
RECURSIVE first_symbol(_)
first_symbol(doc) ==
    IF doc = <<>> THEN None
    ELSE IF lemma_(Head(doc)) \in DOMAIN SYMBOLS THEN Some(SYMBOLS[lemma_(Head(doc))])
    ELSE first_symbol(Tail(doc))

parse_filter_command(text) == first_symbol(nlp(lower(text)))

\* self._extract_number(doc) or True
word_count_value(number) ==
    IF number # None /\ number[1] # 0 THEN PyInt(number[1]) ELSE PyBool(TRUE)

\* NaturalLangFilter.extract_context of src/main.py: the keys set by the
\* labels that matched, and filter_symbol when a comparison word is found
matcher_extract_context(text) ==
    LET doc == nlp(text)
        number == _extract_number(doc)
        char == _extract_character(doc)
        op == parse_filter_command(text)
        labels ==
            (IF matches_one(doc, pattern_palindrome) THEN {"is_palindrome"} ELSE {})
            \cup (IF matches_pair(doc, pattern_word_count)
                  THEN {"word_count"} ELSE {})
            \cup (IF matches_pair(doc, pattern_max_length)
                  THEN {"max_length"} ELSE {})
            \cup (IF matches_pair(doc, pattern_min_length)
                  THEN {"min_length"} ELSE {})
            \cup (IF matches_one(doc, pattern_contains_char) /\ char # None
                  THEN {"contains_character"} ELSE {})
            \cup (IF op # None THEN {"filter_symbol"} ELSE {})
    IN  [k \in labels |->
            CASE k = "is_palindrome" -> PyBool(TRUE)
              [] k = "word_count" -> word_count_value(number)
              [] k \in {"max_length", "min_length"} ->
                    (IF number # None THEN PyInt(number[1]) ELSE PyNone)
              [] k = "contains_character" -> PyStr(lower(char[1]))
              [] k = "filter_symbol" -> PyStr(<<op[1]>>)]

\* ------------------------------------------------------------------ inputs
Procs == {"r1", "r2"}

s_a == <<"a">>
s_A == <<"A">>
s_level == <<"l", "e", "v", "e", "l">>
s_hello_world == <<"h", "e", "l", "l", "o", " ", "w", "o", "r", "l", "d">>

\* values sent by the interleaved requests
Values == {s_a, s_A}
\* values sent by the sequential requests of the query specification
QueryValues == {s_a, s_A, s_level, s_hello_world}

\* request parameters of GET /strings, per key: absent (<<>>) or <<text>>
IsPalindromeParams == {<<>>, <<<<"t", "r", "u", "e">>>>, <<<<"F", "a", "l", "s", "e">>>>}
MaxLengthParams == {<<>>, <<<<"5">>>>}
MinLengthParams == {<<>>, <<<<" ", "2">>>>}
WordCountParams == {<<>>, <<<<"1">>>>}
ContainsCharacterParams == {<<>>, <<<<"a">>>>, <<<<"l">>>>}

FilterKeys == <<"is_palindrome", "max_length", "min_length", "word_count", "contains_character">>

\* dict(req.query_params.items()) for the parameters present
QueryParams(opts) ==
    [k \in {FilterKeys[i] : i \in {j \in DOMAIN FilterKeys : opts[j] # <<>>}} |->
        PyStr(opts[CHOOSE i \in DOMAIN FilterKeys : FilterKeys[i] = k][1])]

\* maps whose every value passes its coercion
ValidFilters ==
    {QueryParams(<<ip, mx, mn, wc, cc>>) :
        ip \in IsPalindromeParams, mx \in MaxLengthParams, mn \in MinLengthParams,
        wc \in WordCountParams, cc \in ContainsCharacterParams}
    \cup {QueryParams(<<<<<<"0">>>>, <<>>, <<>>, <<>>, <<>>>>),
          QueryParams(<<<<<<"1">>>>, <<>>, <<<<"+", "1">>>>, <<>>, <<>>>>),
          QueryParams(<<<<>>, <<<<"0">>>>, <<>>, <<>>, <<>>>>),
          QueryParams(<<<<>>, <<<<"1", "1">>>>, <<<<"6">>>>, <<<<"2">>>>, <<>>>>),
          QueryParams(<<<<>>, <<>>, <<>>, <<>>, <<<<"A">>>>>>),
          QueryParams(<<<<>>, <<<<"4">>>>, <<<<"5">>>>, <<>>, <<>>>>),
          QueryParams(<<<<>>, <<>>, <<<<"5">>>>, <<>>, <<>>>>),
          QueryParams(<<<<>>, <<<<"-", "1">>>>, <<>>, <<>>, <<>>>>)}

\* maps with a value that fails its coercion
InvalidFilters ==
    {QueryParams(<<<<>>, <<>>, <<<<"a", "b", "c">>>>, <<>>, <<>>>>),
     QueryParams(<<<<<<"y", "e", "s">>>>, <<>>, <<>>, <<<<"1">>>>, <<>>>>),
     QueryParams(<<<<<<"t", "r", "u", "e">>>>, <<<<"5">>>>, <<>>, <<>>, <<<<"a", "b">>>>>>)}

\* the map `query` with one more parameter
with_param(query, key, text) ==
    [k \in DOMAIN query \cup {key} |-> IF k = key THEN PyStr(text) ELSE query[k]]

\* maps in which a parameter is present with the empty text (?min_length=)
BlankFilters ==
    {QueryParams(<<<<>>, <<>>, <<<<>>>>, <<>>, <<>>>>),
     QueryParams(<<<<>>, <<>>, <<<<>>>>, <<<<"1">>>>, <<>>>>),
     QueryParams(<<<<<<>>>>, <<>>, <<>>, <<>>, <<<<>>>>>>)}

\* maps with a key outside the five filter keys, alone and beside valid and
\* invalid values of filter keys
UnknownKeyFilters ==
    {with_param(QueryParams(<<<<>>, <<>>, <<>>, <<>>, <<>>>>), "sort", <<"a">>),
     with_param(QueryParams(<<<<<<"t", "r", "u", "e">>>>, <<>>, <<>>, <<>>, <<>>>>), "sort", <<"a">>),
     with_param(QueryParams(<<<<>>, <<>>, <<<<"a", "b", "c">>>>, <<>>, <<>>>>), "sort", <<"a">>)}

Filters == ValidFilters \cup InvalidFilters \cup BlankFilters \cup UnknownKeyFilters

\* the filter maps sent while requests interleave
ServiceFilters ==
    {QueryParams(<<ip, <<>>, <<>>, <<>>, cc>>) :
        ip \in {<<>>, <<<<"t", "r", "u", "e">>>>}, cc \in {<<>>, <<<<"a">>>>}}

\* sentences sent as the `query` parameter of the natural-language route
s_single_word ==
    <<"a", "l", "l", " ", "s", "i", "n", "g", "l", "e", " ", "w", "o", "r",
      "d", " ", "p", "a", "l", "i", "n", "d", "r", "o", "m", "i", "c", " ",
      "s", "t", "r", "i", "n", "g", "s">>
s_longer ==
    <<"s", "t", "r", "i", "n", "g", "s", " ", "l", "o", "n", "g", "e", "r",
      " ", "t", "h", "a", "n", " ", "1", "0", " ", "c", "h", "a", "r", "a",
      "c", "t", "e", "r", "s">>
s_first_vowel ==
    <<"p", "a", "l", "i", "n", "d", "r", "o", "m", "i", "c", " ", "s", "t",
      "r", "i", "n", "g", "s", " ", "t", "h", "a", "t", " ", "c", "o", "n",
      "t", "a", "i", "n", " ", "t", "h", "e", " ", "f", "i", "r", "s", "t",
      " ", "v", "o", "w", "e", "l">>
s_containing_z ==
    <<"s", "t", "r", "i", "n", "g", "s", " ", "c", "o", "n", "t", "a", "i",
      "n", "i", "n", "g", " ", "t", "h", "e", " ", "l", "e", "t", "t", "e",
      "r", " ", "z">>
s_Containing_Z ==
    <<"S", "t", "r", "i", "n", "g", "s", " ", "C", "o", "n", "t", "a", "i",
      "n", "i", "n", "g", " ", "T", "h", "e", " ", "L", "e", "t", "t", "e",
      "r", " ", "Z">>
s_free ==
    <<"s", "h", "o", "r", "t", " ", "s", "t", "r", "i", "n", "g", "s">>
s_zz == <<"z", "z">>

\* the parameter absent, empty, of whitespace only, and four sentences
Sentences ==
    <<PyNone, PyStr(<<>>), PyStr(<<" ", "\t">>), PyStr(s_containing_z),
      PyStr(s_Containing_Z), PyStr(s_single_word), PyStr(s_free)>>

\* values stored while natural-language requests are served
SentenceValues == {s_a, s_level, s_zz}

\* literals the external service may write
lit_json_dict ==
    Lit(FALSE, TRUE, FALSE,
        PyDict([k \in {"contains_character", "word_count", "is_palindrome",
                       "max_length", "min_length"} |->
                  CASE k = "is_palindrome" -> PyBool(TRUE)
                    [] k = "min_length" -> PyInt(2)
                    [] OTHER -> PyNone]))
\* the example of the instruction template
lit_python_dict ==
    Lit(FALSE, FALSE, TRUE,
        PyDict([k \in {"contains_character", "word_count", "is_palindrome",
                       "max_length", "min_length"} |->
                  CASE k = "contains_character" -> PyStr(<<"a">>)
                    [] k = "word_count" -> PyInt(3)
                    [] k = "is_palindrome" -> PyBool(FALSE)
                    [] k = "max_length" -> PyInt(20)
                    [] OTHER -> PyNone]))
lit_escaped_dict ==
    Lit(TRUE, TRUE, TRUE, PyDict([k \in {"min_length"} |-> PyInt(2)]))
lit_empty_dict == Lit(FALSE, TRUE, TRUE, PyDict([k \in {} |-> PyNone]))
lit_list == Lit(FALSE, TRUE, TRUE, PyList(<<PyInt(1), PyInt(2)>>))
lit_int == Lit(FALSE, TRUE, TRUE, PyInt(5))
lit_null == Lit(FALSE, TRUE, FALSE, PyNone)

\* raw texts of the external service (response.text)
RawTexts ==
    <<<<lit_json_dict>>,
      <<Fence, Word("json"), Ws, lit_json_dict, Ws, Fence>>,
      <<Fence, Word("python"), Ws, lit_python_dict, Ws, Fence>>,
      <<Fence, Ws, lit_python_dict, Ws, Fence>>,
      <<Word("Here"), Ws, Fence, Word("json"), Ws, lit_json_dict, Ws, Fence>>,
      <<Quote, lit_escaped_dict, Quote>>,
      <<lit_empty_dict>>,
      <<Word("Sorry")>>,
      <<>>,
      <<lit_list>>,
      <<Fence, Word("json"), Ws, lit_int, Fence>>,
      <<lit_null>>>>

\* what query_json does when called: it raises, or returns response.text,
\* which is None or a text
Outcomes ==
    <<[raised |-> TRUE, text |-> None], [raised |-> FALSE, text |-> None]>>
    \o [i \in DOMAIN RawTexts |-> [raised |-> FALSE, text |-> Some(RawTexts[i])]]

\* sentences sent to the service of src/main.py
r_show_longer ==
    <<"s", "h", "o", "w", " ", "s", "t", "r", "i", "n", "g", "s", " ", "l",
      "o", "n", "g", "e", "r", " ", "t", "h", "a", "n", " ", "1", "0", " ",
      "c", "h", "a", "r", "a", "c", "t", "e", "r", "s">>
r_is_racecar ==
    <<"i", "s", " ", "r", "a", "c", "e", "c", "a", "r", " ", "a", " ", "p",
      "a", "l", "i", "n", "d", "r", "o", "m", "e">>
s_a_b == <<"a", " ", "b">>

RuleSentences ==
    <<r_show_longer, r_is_racecar,
      \* maximum length 10
      <<"m", "a", "x", "i", "m", "u", "m", " ", "l", "e", "n", "g", "t", "h",
        " ", "1", "0">>,
      \* count words 0
      <<"c", "o", "u", "n", "t", " ", "w", "o", "r", "d", "s", " ", "0">>,
      \* count words three 2 or 3
      <<"c", "o", "u", "n", "t", " ", "w", "o", "r", "d", "s", " ", "t", "h",
        "r", "e", "e", " ", "2", " ", "o", "r", " ", "3">>,
      \* how many words
      <<"h", "o", "w", " ", "m", "a", "n", "y", " ", "w", "o", "r", "d", "s">>,
      \* strings under the maximum length
      <<"s", "t", "r", "i", "n", "g", "s", " ", "u", "n", "d", "e", "r", " ",
        "t", "h", "e", " ", "m", "a", "x", "i", "m", "u", "m", " ", "l", "e",
        "n", "g", "t", "h">>,
      \* strings that contain Z
      <<"s", "t", "r", "i", "n", "g", "s", " ", "t", "h", "a", "t", " ", "c",
        "o", "n", "t", "a", "i", "n", " ", "Z">>,
      s_containing_z>>

\* values stored while the service of src/main.py is queried
RuleValues == {s_a, s_a_b, s_zz}

Alphabet == {"a", "b", "A", " ", "\t"}
Strings == UNION {[1..k -> Alphabet] : k \in 0..MaxLen}

\* ------------------------------------------------------------------- state
InitService ==
    /\ store = <<>>
    /\ nextId = 0
    /\ now = 0
    /\ pc = [p \in Procs |-> "idle"]
    /\ req = [p \in Procs |-> <<>>]
    /\ event = [op |-> "none"]

NoParams == [k \in {} |-> PyNone]

Init == InitService /\ inp = <<>> /\ derived = <<>> /\ params = NoParams

\* datetime.now advances between any two steps
Tick ==
    /\ now < MaxClock
    /\ now' = now + 1
    /\ UNCHANGED <<store, nextId, pc, req, event, inp, derived, params>>

\* ---------------------------------------------------------------- handlers
\* PostStringResponseModel / the items of QueryResponseModel.data
PostStringResponseModel(row) ==
    [id |-> row.id, value |-> row.name, properties |-> row, created_at |-> row.created_at]

\* post_strings, up to the end of add_string's existence test: a value found
\* makes add_string return None and the handler raise 409.
post_strings_check(p, value) ==
    /\ pc[p] = "idle"
    /\ IF add_string_absent(store, value)
       THEN /\ nextId + Cardinality({q \in Procs : pc[q] = "add_insert"}) < MaxCreates
            /\ pc' = [pc EXCEPT ![p] = "add_insert"]
            /\ req' = [req EXCEPT ![p] = value]
            /\ event' = [op |-> "add_string_check", proc |-> p, value |-> value]
       ELSE /\ event' = [op |-> "post_strings", proc |-> p, value |-> value,
                         status |-> 409, body |-> None]
            /\ UNCHANGED <<pc, req>>
    /\ UNCHANGED <<store, nextId, now, inp, derived, params>>

\* post_strings, add_string's String(name=value), session.add and commit
post_strings_insert(p) ==
    /\ pc[p] = "add_insert"
    /\ LET new_string == String(req[p], nextId + 1, now)
       IN  /\ store' = add_string_commit(store, new_string)
           /\ event' = [op |-> "add_string", proc |-> p, value |-> req[p],
                        new_string |-> new_string]
    /\ nextId' = nextId + 1
    /\ pc' = [pc EXCEPT ![p] = "readback"]
    /\ UNCHANGED <<now, req, inp, derived, params>>

\* post_strings, the read-back Database.get_string(value) and the response
post_strings_readback(p) ==
    /\ pc[p] = "readback"
    /\ LET response == get_string(store, req[p])
       IN  event' = IF response = None
                    THEN [op |-> "post_strings", proc |-> p, value |-> req[p],
                          status |-> 400, body |-> None]
                    ELSE [op |-> "post_strings", proc |-> p, value |-> req[p],
                          status |-> 201,
                          body |-> Some(PostStringResponseModel(response[1]))]
    /\ pc' = [pc EXCEPT ![p] = "idle"]
    /\ req' = [req EXCEPT ![p] = <<>>]
    /\ UNCHANGED <<store, nextId, now, inp, derived, params>>

\* get_strings
get_strings(string_value) ==
    /\ LET response == get_string(store, string_value)
       IN  event' = IF response # None
                    THEN [op |-> "get_strings", value |-> string_value, status |-> 201,
                          body |-> Some(PostStringResponseModel(response[1]))]
                    ELSE [op |-> "get_strings", value |-> string_value, status |-> 404,
                          body |-> None]
    /\ UNCHANGED <<store, nextId, now, pc, req, inp, derived, params>>

\* delete_strings
delete_strings(string) ==
    /\ LET d == delete_string(store, string)
       IN  /\ store' = d.rows
           /\ event' = [op |-> "delete_strings", value |-> string, result |-> d.result,
                        status |-> IF d.result THEN 204 ELSE 404]
    /\ UNCHANGED <<nextId, now, pc, req, inp, derived, params>>

\* query_strings: 400 for a key outside super_set and for any exception of
\* Database.query_string, else 200 with data, count and filters_applied.
super_set == {"is_palindrome", "min_length", "max_length", "word_count", "contains_character"}

\* the detail of the HTTPException raised by query_strings: one wording, and
\* no key or value in it, whatever was caught
query_strings_detail ==
    [text |-> "Invalid query parameter values or types", key |-> None, val |-> None]

query_strings_allowed_any(query) == TRUE

\* super_set.issuperset(query_set)
query_strings_allowed(query) == DOMAIN query \subseteq super_set

query_strings_response(rows, query) ==
    LET r == query_string(rows, query)
    IN  IF query_strings_allowed(query) /\ r.ok
        THEN [op |-> "query_strings", query |-> query, status |-> 200,
              data |-> [i \in 1..Len(r.rows) |-> PostStringResponseModel(r.rows[i])],
              count |-> Len(r.rows), detail |-> None]
        ELSE [op |-> "query_strings", query |-> query, status |-> 400,
              data |-> <<>>, count |-> 0, detail |-> Some(query_strings_detail)]

query_strings(query) ==
    /\ event' = query_strings_response(store, query)
    /\ UNCHANGED <<store, nextId, now, pc, req, inp, derived, params>>

\* natural_dict of natural_language_parsing
natural_dict ==
    [key \in {s_single_word, s_longer, s_first_vowel, s_containing_z} |->
        CASE key = s_single_word ->
                [k \in {"word_count", "is_palindrome"} |->
                    IF k = "word_count" THEN PyInt(1) ELSE PyBool(TRUE)]
          [] key = s_longer -> [k \in {"min_length"} |-> PyInt(11)]
          [] key = s_first_vowel ->
                [k \in {"is_palindrome", "contains_character"} |->
                    IF k = "is_palindrome" THEN PyBool(TRUE) ELSE PyStr(<<"a">>)]
          [] key = s_containing_z -> [k \in {"contains_character"} |-> PyStr(<<"z">>)]]

\* natural_dict.get(key)
natural_dict_get(key) ==
    IF key \in DOMAIN natural_dict THEN Some(natural_dict[key]) ELSE None

\* String.to_dict
to_dict(row) ==
    [length |-> row.length, is_palindrome |-> row.is_palindrome,
     unique_characters |-> row.unique_characters, word_count |-> row.word_count,
     sha256_hash |-> row.sha256_hash,
     character_frequency_map |-> row.character_frequency_map]

\* (variant: the test `if query:` alone)
query_given_unstripped(query) == truthy(query)

\* query and query.strip() != ""
query_given(query) == truthy(query) /\ strip(query.v) # <<>>

\* the handler reaches nfilter.extract_context: only then does what the
\* external service would do matter
translates(query) ==
    query_given(query) /\ natural_dict_get(lower(query.v)) = None

\* natural_language_parsing, `query` being the query parameter (None when
\* absent) and `outcome` what the external service does if it is called.
\* The response also records whether extract_context was entered
\* (translated), whether query_json was called (called) and whether the
\* statement was executed on the table (executed).
natural_language_parsing_response(rows, query, outcome) ==
    IF ~query_given(query)
    THEN [op |-> "natural_language_parsing", query |-> query, status |-> 400,
          detail |-> "Unable to parse natural language query",
          data |-> <<>>, count |-> 0, filters |-> None,
          translated |-> FALSE, called |-> FALSE, executed |-> FALSE]
    ELSE LET canned == natural_dict_get(lower(query.v))
             t == IF canned # None
                  THEN [raised |-> FALSE, called |-> FALSE, value |-> PyDict(canned[1])]
                  ELSE extract_context(query.v, outcome)
             r == query_string(rows, t.value.v)
         IN  IF t.raised \/ t.value.t # "dict" \/ ~r.ok
             THEN [op |-> "natural_language_parsing", query |-> query, status |-> 422,
                   detail |-> "Query parsed ut resulting in conflicting filters",
                   data |-> <<>>, count |-> 0, filters |-> None,
                   translated |-> canned = None, called |-> t.called, executed |-> FALSE]
             ELSE [op |-> "natural_language_parsing", query |-> query, status |-> 200,
                   detail |-> "",
                   data |-> [i \in 1..Len(r.rows) |-> to_dict(r.rows[i])],
                   count |-> Len(r.rows), filters |-> Some(t.value),
                   translated |-> canned = None, called |-> t.called, executed |-> TRUE]

natural_language_parsing(query, outcome) ==
    /\ event' = natural_language_parsing_response(store, query, outcome)
    /\ UNCHANGED <<store, nextId, now, pc, req, inp, derived, params>>

\* extract_context applied to a sentence, the external service doing `outcome`
Translate(query, outcome) ==
    /\ event' = [op |-> "extract_context", query |-> query, outcome |-> outcome,
                 result |-> extract_context(query, outcome)]
    /\ UNCHANGED <<store, nextId, now, pc, req, inp, derived, params>>

\* parse_gemini_json applied to a response text
Parse(response_text) ==
    /\ event' = [op |-> "parse_gemini_json", response_text |-> response_text,
                 result |-> parse_gemini_json(response_text)]
    /\ UNCHANGED <<store, nextId, now, pc, req, inp, derived, params>>

\* The two query handlers when the engine may be unreachable: session.exec,
\* if it is reached, raises OperationalError when exec_raises.  Both handlers
\* catch it with their `except Exception` and answer as for a bad filter.
with_storage_error(response, storage_error) ==
    [f \in DOMAIN response \cup {"storage_error"} |->
        IF f = "storage_error" THEN storage_error ELSE response[f]]

query_strings_storage_response(rows, query, exec_raises) ==
    IF exec_raises /\ query_strings_allowed(query) /\ query_string(rows, query).ok
    THEN with_storage_error(
            [op |-> "query_strings", query |-> query, status |-> 400,
             data |-> <<>>, count |-> 0, detail |-> Some(query_strings_detail)], TRUE)
    ELSE with_storage_error(query_strings_response(rows, query), FALSE)

query_strings_storage(query, exec_raises) ==
    /\ event' = query_strings_storage_response(store, query, exec_raises)
    /\ UNCHANGED <<store, nextId, now, pc, req, inp, derived, params>>

natural_language_parsing_storage_response(rows, query, outcome, exec_raises) ==
    LET response == natural_language_parsing_response(rows, query, outcome)
    IN  IF exec_raises /\ response.executed
        THEN with_storage_error(
                [response EXCEPT !.status = 422,
                    !.detail = "Query parsed ut resulting in conflicting filters",
                    !.data = <<>>, !.count = 0, !.filters = None], TRUE)
        ELSE with_storage_error(response, FALSE)

natural_language_parsing_storage(query, outcome, exec_raises) ==
    /\ event' = natural_language_parsing_storage_response(store, query, outcome, exec_raises)
    /\ UNCHANGED <<store, nextId, now, pc, req, inp, derived, params>>

\* natural_language_parsing from data = Database.query_string(filters) on,
\* `filters` being the map the translator returned for `query`: 422 for any
\* exception, else 200 with the records and the map.  The response also
\* records the map the handler held (parsed).
natural_language_parsing_answer(rows, query, filters) ==
    LET r == query_string(rows, filters)
    IN  IF ~r.ok
        THEN [op |-> "natural_language_parsing", query |-> query, status |-> 422,
              detail |-> "Query parsed ut resulting in conflicting filters",
              data |-> <<>>, count |-> 0, filters |-> None, parsed |-> Some(filters),
              translated |-> TRUE, called |-> FALSE, executed |-> FALSE]
        ELSE [op |-> "natural_language_parsing", query |-> query, status |-> 200,
              detail |-> "",
              data |-> [i \in 1..Len(r.rows) |-> to_dict(r.rows[i])],
              count |-> Len(r.rows), filters |-> Some(PyDict(filters)),
              parsed |-> Some(filters),
              translated |-> TRUE, called |-> FALSE, executed |-> TRUE]

\* nfilter.extract_context(text) for the sentences of the model, each
\* evaluated once
Translations ==
    [i \in DOMAIN RuleSentences |-> matcher_extract_context(RuleSentences[i])]

Translation(text) ==
    Translations[CHOOSE i \in DOMAIN RuleSentences : RuleSentences[i] = text]

\* natural_language_parsing of src/main.py: the same handler, its translator
\* the pattern matcher, which calls no external service
matcher_natural_language_parsing_response(rows, query) ==
    IF ~query_given(query)
    THEN [op |-> "natural_language_parsing", query |-> query, status |-> 400,
          detail |-> "Unable to parse natural language query",
          data |-> <<>>, count |-> 0, filters |-> None, parsed |-> None,
          translated |-> FALSE, called |-> FALSE, executed |-> FALSE]
    ELSE LET canned == natural_dict_get(lower(query.v))
         IN  IF canned # None
             THEN [natural_language_parsing_answer(rows, query, canned[1])
                      EXCEPT !.translated = FALSE]
             ELSE natural_language_parsing_answer(rows, query, Translation(query.v))

matcher_natural_language_parsing(query) ==
    /\ event' = matcher_natural_language_parsing_response(store, query)
    /\ UNCHANGED <<store, nextId, now, pc, req, inp, derived, params>>

\* the pattern matcher's extract_context applied to a sentence
MatcherTranslate(text) ==
    /\ event' = [op |-> "matcher_extract_context", text |-> text,
                 result |-> Translation(text)]
    /\ UNCHANGED <<store, nextId, now, pc, req, inp, derived, params>>

\* the handler's answer to a sentence for which the translator returned the
\* map `filters`
natural_language_parsing_filters(query, filters) ==
    /\ event' = natural_language_parsing_answer(store, query, filters)
    /\ UNCHANGED <<store, nextId, now, pc, req, inp, derived, params>>

\* Database.query_string applied to a map of typed values
QueryTyped(query) ==
    /\ event' = [op |-> "query_string", query |-> query,
                 result |-> query_string(store, query)]
    /\ UNCHANGED <<store, nextId, now, pc, req, inp, derived, params>>

\* maps of typed values, as a translator writes them
is_palindrome_only(val) == [k \in {"is_palindrome"} |-> val]

typed_nulls_unknown ==
    [k \in {"min_length", "max_length", "filter_symbol", "note"} |->
        CASE k = "min_length" -> PyInt(2)
          [] k = "filter_symbol" -> PyStr(<<"<">>)
          [] OTHER -> PyNone]

TypedFilters ==
    <<is_palindrome_only(PyBool(FALSE)),
      is_palindrome_only(PyStr(<<"f", "a", "l", "s", "e">>)),
      is_palindrome_only(PyStr(<<"F", "A", "L", "S", "E">>)),
      is_palindrome_only(PyStr(<<"F", "a", "l", "s", "e">>)),
      is_palindrome_only(PyStr(<<"0">>)),
      is_palindrome_only(PyBool(TRUE)),
      [k \in {"min_length"} |-> PyInt(2)],
      [k \in super_set |-> IF k = "min_length" THEN PyInt(2) ELSE PyNone],
      [k \in {"min_length", "filter_symbol"} |->
          IF k = "min_length" THEN PyInt(2) ELSE PyStr(<<"<">>)],
      typed_nulls_unknown,
      [k \in {"min_length", "max_length"} |-> IF k = "min_length" THEN PyInt(3) ELSE PyInt(2)],
      [k \in {"min_length"} |-> PyStr(<<"t", "e", "n">>)],
      [k \in {"word_count"} |-> PyBool(TRUE)],
      [k \in {"word_count"} |-> PyInt(2)],
      lit_python_dict.v.value.v,
      NoParams>>

\* ---------------------------------------------------------- specifications
\* Interleaved requests on the shared table.
Next ==
    \/ Tick
    \/ \E p \in Procs, value \in Values : post_strings_check(p, value)
    \/ \E p \in Procs : post_strings_insert(p)
    \/ \E p \in Procs : post_strings_readback(p)
    \/ \E value \in Values : get_strings(value)
    \/ \E value \in Values : delete_strings(value)
    \/ \E query \in ServiceFilters : query_strings(query)

Spec == Init /\ [][Next]_vars

\* One client, one request at a time, over a larger table; the client's
\* filter map is any of Filters.
QueryInit == InitService /\ inp = <<>> /\ derived = <<>> /\ params \in Filters

QueryNext ==
    \/ \E value \in QueryValues : post_strings_check("r1", value)
    \/ post_strings_insert("r1")
    \/ post_strings_readback("r1")
    \/ \E value \in QueryValues : delete_strings(value)
    \/ query_strings(params)

QuerySpec == QueryInit /\ [][QueryNext]_vars

\* The property derivation alone, on every string up to MaxLen.
DeriveInit == InitService /\ inp \in Strings /\ derived = <<>> /\ params = NoParams

Construct ==
    /\ derived = <<>>
    /\ derived' = <<String(inp, nextId + 1, now)>>
    /\ UNCHANGED <<store, nextId, now, pc, req, event, inp, params>>

DeriveNext == Construct

DeriveSpec == DeriveInit /\ [][DeriveNext]_vars

\* One client of the natural-language route, one request at a time, and the
\* translator and its parser applied to every outcome of the external call.
SentenceNext ==
    \/ \E value \in SentenceValues : post_strings_check("r1", value)
    \/ post_strings_insert("r1")
    \/ post_strings_readback("r1")
    \/ \E value \in SentenceValues : delete_strings(value)
    \/ \E i \in DOMAIN Sentences :
          \E o \in (IF translates(Sentences[i]) THEN DOMAIN Outcomes ELSE {1}) :
              natural_language_parsing(Sentences[i], Outcomes[o])
    \/ \E o \in DOMAIN Outcomes : Translate(s_free, Outcomes[o])
    \/ \E o \in DOMAIN Outcomes : Parse(Outcomes[o].text)

SentenceSpec == Init /\ [][SentenceNext]_vars

\* Queries against an engine that may be unreachable when a statement is
\* executed.
StorageNext ==
    \/ \E value \in SentenceValues : post_strings_check("r1", value)
    \/ post_strings_insert("r1")
    \/ post_strings_readback("r1")
    \/ \E value \in SentenceValues : delete_strings(value)
    \/ \E query \in ServiceFilters \cup InvalidFilters \cup UnknownKeyFilters :
          \E exec_raises \in BOOLEAN : query_strings_storage(query, exec_raises)
    \/ \E i \in DOMAIN Sentences : \E exec_raises \in BOOLEAN :
          natural_language_parsing_storage(Sentences[i], Outcomes[1], exec_raises)

StorageSpec == Init /\ [][StorageNext]_vars

\* One client of the natural-language route of src/main.py, and the maps a
\* translator can hand to Database.query_string.
TranslatedNext ==
    \/ \E value \in RuleValues : post_strings_check("r1", value)
    \/ post_strings_insert("r1")
    \/ post_strings_readback("r1")
    \/ \E value \in RuleValues : delete_strings(value)
    \/ \E i \in DOMAIN RuleSentences : matcher_natural_language_parsing(PyStr(RuleSentences[i]))
    \/ \E i \in DOMAIN RuleSentences : MatcherTranslate(RuleSentences[i])
    \/ \E i \in DOMAIN TypedFilters :
          natural_language_parsing_filters(PyStr(s_free), TypedFilters[i])
    \/ \E i \in DOMAIN TypedFilters : QueryTyped(TypedFilters[i])

TranslatedSpec == Init /\ [][TranslatedNext]_vars

\* Interleaved requests on every route of src/src/stage1; of the sentences,
\* the absent parameter, a canned phrase and a free sentence.
ServiceSentences == {1, 4, 7}

ServiceNext ==
    \/ Tick
    \/ \E p \in Procs, value \in Values : post_strings_check(p, value)
    \/ \E p \in Procs : post_strings_insert(p)
    \/ \E p \in Procs : post_strings_readback(p)
    \/ \E value \in Values : get_strings(value)
    \/ \E value \in Values : delete_strings(value)
    \/ \E query \in ServiceFilters : query_strings(query)
    \/ \E i \in ServiceSentences : natural_language_parsing(Sentences[i], Outcomes[1])

ServiceSpec == Init /\ [][ServiceNext]_vars

\* ================================================================== claims
\* ------------------------------------------- the derivation (DeriveSpec)
\* first positions of the maximal runs of non-whitespace characters of s
RunStarts(s) ==
    {i \in 1..Len(s) : ~isspace(s[i]) /\ (i = 1 \/ isspace(s[i - 1]))}

Occurrences(s, c) == Cardinality({i \in 1..Len(s) : s[i] = c})

RECURSIVE SumOver(_, _)
SumOver(m, keys) ==
    IF keys = {} THEN 0
    ELSE LET k == CHOOSE x \in keys : TRUE IN m[k] + SumOver(m, keys \ {k})

\* C7: for every input string, empty and whitespace-only ones included, the
\* derived length is the number of characters and the derived word_count is
\* the number of maximal runs of non-whitespace characters.
C7_LengthAndWordCount ==
    derived # <<>> =>
        /\ derived[1].length = Len(inp)
        /\ derived[1].word_count = Cardinality(RunStarts(inp))
        /\ ((\A i \in 1..Len(inp) : isspace(inp[i])) => derived[1].word_count = 0)

\* a derived string with leading whitespace and a tab between two words
C7_Witness ==
    /\ derived # <<>>
    /\ inp = <<"a", "\t", "b">>
    /\ derived[1].word_count = 2
    /\ derived[1].length = 3

\* C8: for every input string, is_palindrome holds exactly when the string
\* equals its character-reversed sequence, with no case folding and no
\* stripping; it holds for the empty string and for every one-character one.
C8_PalindromeExact ==
    derived # <<>> =>
        /\ derived[1].is_palindrome =
              (\A i \in 1..Len(inp) : inp[i] = inp[Len(inp) + 1 - i])
        /\ (Len(inp) <= 1 => derived[1].is_palindrome)

\* a derived string that only case folding would make a palindrome
C8_Witness ==
    /\ derived # <<>>
    /\ inp = <<"a", "b", "A">>
    /\ ~derived[1].is_palindrome

\* C9: for every input string, character_frequency has exactly the distinct
\* characters as keys, each mapped to its number of occurrences;
\* unique_character_count is the number of keys; the counts sum to length;
\* for the empty string the map is empty and the count 0.
C9_CharacterFrequency ==
    derived # <<>> =>
        LET m == derived[1].character_frequency_map
        IN  /\ DOMAIN m = {inp[i] : i \in 1..Len(inp)}
            /\ \A c \in DOMAIN m : m[c] = Occurrences(inp, c)
            /\ derived[1].unique_characters = Cardinality(DOMAIN m)
            /\ SumOver(m, DOMAIN m) = derived[1].length
            /\ (inp = <<>> => DOMAIN m = {} /\ derived[1].unique_characters = 0)

\* a derived string with a repeated character and a character differing in case
C9_Witness ==
    /\ derived # <<>>
    /\ inp = <<"a", "A", "a">>
    /\ derived[1].unique_characters = 2
    /\ derived[1].character_frequency_map["a"] = 2

\* ------------------------------------- the interleaved requests (Spec)
\* The step taken is one that stamps `op` into event (every action but Tick
\* stamps its own).
Did(op) == event'.op = op /\ now' = now

Stored(rows, value) == \E i \in DOMAIN rows : rows[i].name = value

DerivedFields(row) ==
    [length |-> row.length, is_palindrome |-> row.is_palindrome,
     unique_characters |-> row.unique_characters, word_count |-> row.word_count,
     sha256_hash |-> row.sha256_hash,
     character_frequency_map |-> row.character_frequency_map]

\* C1: of two create requests for the same value that run concurrently, at
\* most one succeeds: never have the add_string calls of two requests in
\* flight both returned a new String for the same value.
C1_OneConcurrentCreateSucceeds ==
    \A p, q \in Procs :
        (p # q /\ pc[p] = "readback" /\ pc[q] = "readback") => req[p] # req[q]

\* C2: no two stored records have the same value.
C2_ValuesUnique ==
    \A i, j \in DOMAIN store : i # j => store[i].name # store[j].name

\* C3: a create of a stored value answers AlreadyExists (409, no record in
\* the body), leaves the table unchanged, and get(value) still gives the
\* record it gave before.
C3_CreateOfStoredValue ==
    [][\A p \in Procs :
          (/\ pc[p] = "idle"
           /\ (Did("post_strings") \/ Did("add_string_check"))
           /\ event'.proc = p
           /\ Stored(store, event'.value))
          => /\ event'.op = "post_strings"
             /\ event'.status = 409
             /\ event'.body = None
             /\ store' = store
             /\ get_string(store', event'.value) = get_string(store, event'.value)
             /\ get_string(store', event'.value) # None]_vars

\* a create answered 409 while the value is stored
C3_Witness ==
    /\ event.op = "post_strings"
    /\ event.status = 409
    /\ Stored(store, event.value)
    /\ get_string(store, event.value)[1].id = 1

\* C4: delete(v) returns true exactly when v was stored before the call and
\* then removes the record, so that a second delete(v) returns false; a miss
\* is the result false.
C4_DeleteTrueThenFalse ==
    [][Did("delete_strings") =>
          /\ event'.result = Stored(store, event'.value)
          /\ (event'.result =>
                /\ Len(store') = Len(store) - 1
                /\ ~delete_string(store', event'.value).result)
          /\ (~event'.result => store' = store)]_vars

\* C5: after delete(v) returned true the record is gone: get(v) gives
\* NotFound and no query returns a record of value v, until a create(v)
\* commits; that create succeeds and stores a record with a fresh id.
C5_DeletedIsGone ==
    [][/\ (Did("delete_strings") /\ event'.result) =>
              /\ get_string(store', event'.value) = None
              /\ \A i \in DOMAIN query_string(store', NoParams).rows :
                    query_string(store', NoParams).rows[i].name # event'.value
       /\ \A v \in Values :
              (~Stored(store, v) /\ Stored(store', v)) =>
                  /\ Did("add_string")
                  /\ event'.value = v
                  /\ \A i \in DOMAIN store : store[i].id # event'.new_string.id]_vars

\* C6: every stored record's derived fields are those the derivation gives
\* for its value whenever it is applied, and no step changes a stored
\* record (its id, created_at and derived fields).
C6_DerivedFieldsFixed ==
    /\ [](\A i \in DOMAIN store :
            DerivedFields(store[i]) = DerivedFields(String(store[i].name, nextId + 1, now)))
    /\ [][\A i \in DOMAIN store : \A j \in DOMAIN store' :
            store[i].id = store'[j].id => store[i] = store'[j]]_vars

\* a record stored at an earlier clock value, after later inserts and a delete
C6_Witness ==
    /\ Len(store) = 1
    /\ nextId = MaxCreates
    /\ store[1].created_at < now
    /\ event.op = "delete_strings"

\* ------------------------------------------- the query engine (QuerySpec)
\* What one provided key asks of a record, read off the record's value.
KeySatisfied(key, text, row) ==
    CASE key = "is_palindrome" ->
            (row.name = reversed(row.name)) = (lower(text) \in TrueWords)
      [] key = "min_length" -> Len(row.name) >= int(PyStr(text)).n
      [] key = "max_length" -> Len(row.name) <= int(PyStr(text)).n
      [] key = "word_count" -> Cardinality(RunStarts(row.name)) = int(PyStr(text)).n
      [] key = "contains_character" -> \E i \in 1..Len(row.name) : row.name[i] = text[1]

SatisfiesAll(query, row) ==
    \A key \in DOMAIN query : KeySatisfied(key, query[key].v, row)

\* C10: for every table content and every valid filter map, the query
\* returns exactly the stored records that satisfy every provided key at
\* once, each once; with no key it returns all stored records.
C10_QueryIsConjunction ==
    (event.op = "query_strings" /\ event.query \in ValidFilters) =>
        /\ event.status = 200
        /\ {event.data[i].properties : i \in DOMAIN event.data}
              = {store[i] : i \in {j \in DOMAIN store : SatisfiesAll(event.query, store[j])}}
        /\ event.count = Len(event.data)
        /\ event.count = Cardinality({j \in DOMAIN store : SatisfiesAll(event.query, store[j])})
        /\ (DOMAIN event.query = {} => event.count = Len(store))

\* {is_palindrome: true, word_count: 1} over "level" and "hello world"
\* returns "level" alone
C10_Witness ==
    /\ event.op = "query_strings"
    /\ DOMAIN event.query = {"is_palindrome", "word_count"}
    /\ event.query["is_palindrome"].v = <<"t", "r", "u", "e">>
    /\ {store[i].name : i \in DOMAIN store} = {s_level, s_hello_world}
    /\ Len(store) = 2
    /\ event.count = 1
    /\ event.data[1].value = s_level

\* C11: a structured query whose filter map has a key outside the five
\* filter keys is rejected as a whole (400, no records), whatever the other
\* keys and their values are.
C11_UnknownKeyRejected ==
    (/\ event.op = "query_strings"
     /\ \E key \in DOMAIN event.query :
            key \notin {"is_palindrome", "min_length", "max_length", "word_count",
                        "contains_character"})
    => /\ event.status = 400
       /\ event.data = <<>>
       /\ event.count = 0
       /\ event.detail # None

\* {sort: a, is_palindrome: true} is rejected over a table holding the
\* palindrome "level", which the query without `sort` returns
C11_Witness ==
    /\ event.op = "query_strings"
    /\ DOMAIN event.query = {"sort", "is_palindrome"}
    /\ event.status = 400
    /\ \E i \in DOMAIN store : store[i].name = s_level
    /\ query_string(store, [k \in {"is_palindrome"} |-> event.query[k]]).rows # <<>>

\* C12: a structured query of filter keys only, one of whose values fails
\* its coercion, is rejected, and the rejection the caller receives names
\* the offending key, which tells it from the rejection of an unknown key
\* and from the rejection caused by another key.
C12_RejectionNamesKey ==
    (/\ event.op = "query_strings"
     /\ DOMAIN event.query \subseteq {"is_palindrome", "min_length", "max_length",
                                      "word_count", "contains_character"}
     /\ ~query_string(store, event.query).ok)
    => /\ event.status = 400
       /\ event.detail # None
       /\ event.detail[1].key = Some(query_string(store, event.query).key)
       /\ event.detail[1] = query_string(store, event.query).message

\* The coercion rule of a filter key, on the text of a request parameter.
CoercionFails(key, text) ==
    CASE key = "is_palindrome" -> lower(text) \notin BoolWords
      [] key \in {"min_length", "max_length", "word_count"} -> ~int(PyStr(text)).ok
      [] key = "contains_character" -> Len(text) # 1

\* C13: a structured query is rejected whenever a filter key that is
\* present has a value failing its coercion rule, the empty string
\* included; a present key is never skipped.
C13_InvalidValueRejected ==
    (/\ event.op = "query_strings"
     /\ \E key \in DOMAIN event.query :
            /\ key \in {"is_palindrome", "min_length", "max_length", "word_count",
                        "contains_character"}
            /\ CoercionFails(key, event.query[key].v))
    => /\ event.status = 400
       /\ event.data = <<>>

\* the stored records a query returned
Returned == {event.data[i].properties : i \in DOMAIN event.data}

\* C14 as stated: a record matches contains_character = c exactly when some
\* key of its character_frequency equals c ignoring letter case.
C14_ContainsCharacterIgnoresCase ==
    (/\ event.op = "query_strings"
     /\ DOMAIN event.query = {"contains_character"}
     /\ Len(event.query["contains_character"].v) = 1)
    => \A i \in DOMAIN store :
          store[i] \in Returned
          <=> \E k \in DOMAIN store[i].character_frequency_map :
                 lower_char(k) = lower_char(event.query["contains_character"].v[1])

\* C14: a record matches contains_character = c exactly when c itself, in
\* the letter case given, is a key of its character_frequency: 'A' does not
\* match a record whose value contains only 'a', nor 'a' one with only 'A'.
C14_ContainsCharacterExact ==
    (/\ event.op = "query_strings"
     /\ DOMAIN event.query = {"contains_character"}
     /\ Len(event.query["contains_character"].v) = 1)
    => /\ event.status = 200
       /\ \A i \in DOMAIN store :
             store[i] \in Returned
             <=> event.query["contains_character"].v[1]
                    \in DOMAIN store[i].character_frequency_map

\* contains_character = A over a table holding "a" and "A" returns "A" alone
C14_Witness ==
    /\ event.op = "query_strings"
    /\ DOMAIN event.query = {"contains_character"}
    /\ event.query["contains_character"].v = <<"A">>
    /\ {store[i].name : i \in DOMAIN store} = {s_a, s_A}
    /\ event.count = 1
    /\ event.data[1].value = s_A

\* the integer a length parameter of the query denotes
LengthBound(query, key) == int(PyStr(query[key].v)).n

\* a query of min_length and max_length only, each an integer
LengthQuery(query) ==
    /\ DOMAIN query # {}
    /\ DOMAIN query \subseteq {"min_length", "max_length"}
    /\ \A key \in DOMAIN query : ~CoercionFails(key, query[key].v)

\* C15: min_length and max_length are inclusive bounds on length: a record
\* matches min_length = n iff its length >= n, and max_length = n iff its
\* length <= n; min_length greater than max_length is valid and returns
\* nothing.
C15_LengthBoundsInclusive ==
    (event.op = "query_strings" /\ LengthQuery(event.query)) =>
        /\ event.status = 200
        /\ \A i \in DOMAIN store :
              store[i] \in Returned
              <=> /\ "min_length" \in DOMAIN event.query =>
                        Len(store[i].name) >= LengthBound(event.query, "min_length")
                  /\ "max_length" \in DOMAIN event.query =>
                        Len(store[i].name) <= LengthBound(event.query, "max_length")
        /\ (/\ DOMAIN event.query = {"min_length", "max_length"}
            /\ LengthBound(event.query, "min_length") > LengthBound(event.query, "max_length"))
           => event.data = <<>> /\ event.count = 0

\* min_length = 5 with max_length = 4 succeeds with nothing over a table
\* holding "level", whose length is the lower bound
C15_Witness ==
    /\ event.op = "query_strings"
    /\ DOMAIN event.query = {"min_length", "max_length"}
    /\ event.query["min_length"].v = <<"5">>
    /\ event.query["max_length"].v = <<"4">>
    /\ \E i \in DOMAIN store : store[i].name = s_level
    /\ event.status = 200
    /\ event.count = 0

\* C16: after any sequence of creates and deletes, the records a query
\* returns appear in the order of their insertion: of two returned records
\* the one created first (the smaller id of the counter, the earlier
\* created_at) comes first.
C16_InsertionOrder ==
    event.op = "query_strings" =>
        \A i, j \in DOMAIN event.data :
            i < j => /\ event.data[i].id < event.data[j].id
                     /\ event.data[i].created_at <= event.data[j].created_at

\* two records returned in insertion order after the record created first
\* was deleted
C16_Witness ==
    /\ event.op = "query_strings"
    /\ nextId = 3
    /\ Len(event.data) = 2
    /\ event.data[1].id = 2
    /\ event.data[2].id = 3

\* the present filter keys of a query whose values fail their coercion rule
FailingKeys(query) ==
    {key \in DOMAIN query : CoercionFails(key, query[key].v)}

\* C17: when a filter map of filter keys holds both valid and invalid
\* values, the query engine reports the first coercion failure, reads no
\* record and the caller receives none (never the result of the valid keys
\* alone); a valid filter that matches nothing is a success with an empty
\* sequence.
C17_MixedValuesRejected ==
    (/\ event.op = "query_strings"
     /\ DOMAIN event.query \subseteq {"is_palindrome", "min_length", "max_length",
                                      "word_count", "contains_character"})
    => LET bad == FailingKeys(event.query)
           r == query_string(store, event.query)
       IN  /\ (bad # {} /\ bad # DOMAIN event.query) =>
                 /\ event.status = 400
                 /\ event.data = <<>>
                 /\ ~r.ok
                 /\ r.rows = <<>>
                 /\ r.key \in bad
                 /\ \A i, j \in DOMAIN FilterKeys :
                        (FilterKeys[i] \in bad /\ FilterKeys[j] = r.key) => j <= i
           /\ (bad = {} /\ \A i \in DOMAIN store : ~SatisfiesAll(event.query, store[i])) =>
                 /\ event.status = 200
                 /\ event.data = <<>>

\* ------------------------------ the natural-language route (SentenceSpec)
\* the query parameter is missing, empty or of whitespace only
BlankQuery(query) ==
    query.t = "NoneType" \/ \A i \in DOMAIN query.v : query.v[i] \in {" ", "\t"}

\* C18: a natural-language query that is missing, empty or whitespace-only
\* is rejected as a bad request (400): the translator is not entered, the
\* external service is not called, the table is not read and no record is
\* returned.
C18_BlankQueryRejected ==
    (event.op = "natural_language_parsing" /\ BlankQuery(event.query)) =>
        /\ event.status = 400
        /\ ~event.translated
        /\ ~event.called
        /\ ~event.executed
        /\ event.data = <<>>
        /\ event.filters = None

\* a whitespace-only query rejected over a table that holds records
C18_Witness ==
    /\ event.op = "natural_language_parsing"
    /\ event.query = PyStr(<<" ", "\t">>)
    /\ event.status = 400
    /\ Len(store) = 2

\* C19: a non-empty natural-language query whose translation gives no
\* usable filter (the translator fails or gives an empty map) is answered
\* with a failure saying that the query could not be interpreted, never
\* with a success, and with no records.
C19_UntranslatedIsFailure ==
    (/\ event.op = "natural_language_parsing"
     /\ ~BlankQuery(event.query)
     /\ event.translated
     /\ (event.filters = None \/ DOMAIN event.filters[1].v = {}))
    => /\ event.status # 200
       /\ event.data = <<>>
       /\ event.detail = "Unable to parse natural language query"

\* C20: whatever the external call does (it raises, or returns any text, a
\* non-mapping literal included), extract_context does not raise and
\* returns a mapping, the empty one on a failure; so does the parser it
\* relies on for every text.
C20_TranslatorTotal ==
    /\ event.op = "extract_context" =>
          /\ ~event.result.raised
          /\ event.result.value.t = "dict"
          /\ (event.outcome.raised => DOMAIN event.result.value.v = {})
    /\ event.op = "parse_gemini_json" => event.result.t = "dict"

\* a fence, an optional tag json or python, one well-formed literal and a
\* fence, with whitespace between them
FencedLiteral(text) ==
    /\ Len(text) >= 3
    /\ text[1].k = "fence"
    /\ text[Len(text)].k = "fence"
    /\ \E i \in 2..(Len(text) - 1) :
          /\ text[i].k = "lit"
          /\ ~text[i].v.escaped
          /\ \A j \in (i + 1)..(Len(text) - 1) : text[j].k = "ws"
          /\ \A j \in 2..(i - 1) :
                \/ text[j].k = "ws"
                \/ j = 2 /\ text[j].k = "word" /\ text[j].v \in {"json", "python"}

\* the object the literal of a fenced block denotes
FencedValue(text) ==
    text[CHOOSE i \in DOMAIN text : text[i].k = "lit"].v.value

\* C21: for every response that is a well-formed literal of the five filter
\* keys in a fenced block (no tag, the json tag or the python tag of the
\* instruction template), parse_gemini_json returns the map of the literal,
\* by the strict parse or else the permissive one.
C21_FencedLiteralParsed ==
    (/\ event.op = "parse_gemini_json"
     /\ event.response_text # None
     /\ FencedLiteral(event.response_text[1]))
    => event.result = FencedValue(event.response_text[1])

\* ------------------------------------- an unreachable engine (StorageSpec)
\* C22: a storage failure raised while a structured or natural-language
\* query is executed reaches the request boundary as it is: the caller is
\* not answered with a bad-request (400) or unprocessable (422) response.
C22_StorageFailurePropagates ==
    (/\ event.op \in {"query_strings", "natural_language_parsing"}
     /\ event.storage_error)
    => event.status \notin {400, 422}

\* ------------------------- the pattern translator and typed maps (TranslatedSpec)
\* the sentence has a word of `words`, in any letter case
HasWord(text, words) ==
    \E i \in DOMAIN split(text) : lower(split(text)[i]) \in words

\* positions of the words of the sentence that are written in digits only
IntegerWords(text) ==
    {i \in DOMAIN split(text) :
        \A j \in DOMAIN split(text)[i] : is_digit(split(text)[i][j])}

\* the first integer literal of the sentence, None when it has none
FirstInteger(text) ==
    IF IntegerWords(text) = {} THEN None
    ELSE LET i == CHOOSE i \in IntegerWords(text) : \A j \in IntegerWords(text) : i <= j
         IN  Some(digits_value(split(text)[i], 0))

\* C23: the pattern translator gives max_length = the first integer literal to
\* a sentence with a max-length cue and a size noun, and is_palindrome = true
\* to a sentence with the word palindrome; "show strings longer than 10
\* characters" gives exactly {max_length: 10} and "is racecar a palindrome"
\* exactly {is_palindrome: true}.
C23_MatcherExamples ==
    event.op = "matcher_extract_context" =>
        /\ (HasWord(event.text, pattern_max_length[1])
              /\ HasWord(event.text, pattern_max_length[2])
              /\ FirstInteger(event.text) # None)
           => /\ "max_length" \in DOMAIN event.result
              /\ event.result["max_length"] = PyInt(FirstInteger(event.text)[1])
        /\ HasWord(event.text, pattern_palindrome)
           => /\ "is_palindrome" \in DOMAIN event.result
              /\ event.result["is_palindrome"] = PyBool(TRUE)
        /\ event.text = r_show_longer
           => event.result = [k \in {"max_length"} |-> PyInt(10)]
        /\ event.text = r_is_racecar
           => event.result = [k \in {"is_palindrome"} |-> PyBool(TRUE)]

\* C24: when the word-count pattern matches, word_count is the first integer
\* literal of the sentence whenever it has one, 0 included, and the boolean
\* marker only when it has none.
C24_WordCountFirstInteger ==
    (event.op = "matcher_extract_context" /\ "word_count" \in DOMAIN event.result) =>
        event.result["word_count"] =
            IF FirstInteger(event.text) # None
            THEN PyInt(FirstInteger(event.text)[1])
            ELSE PyBool(TRUE)

\* the records of the table whose word_count is n, as the route writes them
WordCountRows(n) ==
    LET rows == SelectSeq(store, LAMBDA row : row.word_count = n)
    IN  [i \in 1..Len(rows) |-> to_dict(rows[i])]

\* C25: a sentence without an integer literal that is translated to the
\* word_count marker alone (boolean true) is not answered as a query word_count = N: whenever the table holds a record
\* of another word count, the records returned are not those of word_count = N,
\* for any N and for N = 1 in particular.
C25_MarkerNotNumeric ==
    (/\ event.op = "natural_language_parsing"
     /\ event.status = 200
     /\ event.translated
     /\ FirstInteger(event.query.v) = None
     /\ event.filters = Some(PyDict([k \in {"word_count"} |-> PyBool(TRUE)]))) =>
        \A n \in 0..3 :
            (\E i \in DOMAIN store : store[i].word_count # n) =>
                event.data # WordCountRows(n)

\* the ways the value false of is_palindrome arrives: the boolean, and the
\* texts false and 0 in any letter case
IsFalse(val) ==
    \/ val = PyBool(FALSE)
    \/ val.t = "str" /\ lower(val.v) \in {<<"f", "a", "l", "s", "e">>, <<"0">>}

\* C26: Database.query_string applied to a map whose is_palindrome is false
\* returns no palindrome, and exactly the stored records that are not
\* palindromes when the map has no other key.
C26_NotPalindromes ==
    (/\ event.op = "query_string"
     /\ "is_palindrome" \in DOMAIN event.query
     /\ IsFalse(event.query["is_palindrome"])) =>
        /\ event.result.ok
        /\ \A i \in DOMAIN event.result.rows : ~event.result.rows[i].is_palindrome
        /\ DOMAIN event.query = {"is_palindrome"} =>
              event.result.rows = SelectSeq(store, LAMBDA row : ~row.is_palindrome)

\* the map has a bound or a count written as a text that is no integer
InvalidTyped(filters) ==
    \E k \in {"max_length", "min_length", "word_count"} \cap DOMAIN filters :
        /\ filters[k].t = "str"
        /\ filters[k].v # <<>>
        /\ \E j \in DOMAIN filters[k].v : ~is_digit(filters[k].v[j])

\* the map asks for a length at least m and at most n < m
ConflictTyped(filters) ==
    /\ {"max_length", "min_length"} \subseteq DOMAIN filters
    /\ filters["max_length"].t = "int"
    /\ filters["min_length"].t = "int"
    /\ filters["min_length"].v > filters["max_length"].v

Constraining(filters) ==
    [k \in {k \in DOMAIN filters \cap super_set : filters[k] # PyNone} |-> filters[k]]

\* C28: in a translator's map a recognized key with the value null and a key
\* outside the five recognized ones constrain nothing and raise nothing:
\* Database.query_string, and the natural-language route with it, return what
\* they return for the map without those entries.
C28_IdleEntriesIgnored ==
    /\ event.op = "query_string" =>
          event.result = query_string(store, Constraining(event.query))
    /\ (event.op = "natural_language_parsing" /\ event.parsed # None) =>
          LET plain == natural_language_parsing_answer(store, event.query,
                                                       Constraining(event.parsed[1]))
          IN  /\ event.status = plain.status
              /\ event.data = plain.data
              /\ event.count = plain.count

\* a map with a null value and an unrecognized key beside a real constraint
\* was applied to a table on which the constraint tells records apart
C28_Witness ==
    /\ event.op = "query_string"
    /\ event.query = typed_nulls_unknown
    /\ event.result.ok
    /\ Len(event.result.rows) = 1
    /\ Len(store) = 2

\* the route of src/main.py answered a sentence translated to a null
\* max_length and a filter_symbol with every record
C28_WitnessRoute ==
    /\ event.op = "natural_language_parsing"
    /\ event.query = PyStr(RuleSentences[7])
    /\ event.status = 200
    /\ event.count = 2

\* ------------------------------- the interleaved requests, continued (Spec)
\* C29: a create whose insert was committed answers 201 with the record under
\* every interleaving; no delete between the commit and the read-back turns
\* it into the 400 answer.
C29_InsertedCreateAnswers201 ==
    [][\A p \in Procs : (pc[p] = "readback" /\ pc'[p] = "idle") =>
            /\ event'.op = "post_strings"
            /\ event'.status = 201
            /\ event'.body # None]_vars

\* ------------------------------------------- every route (ServiceSpec)
\* the rows of the table whose value is not `value`, in storage order
Others(rows, value) == SelectSeq(rows, LAMBDA row : row.name # value)

\* C30: the insert of create(v) and delete(v) leave the records of every
\* other value as they were (id, created_at, derived fields, relative order);
\* every other step of a create, and get, structured query and
\* natural-language query, answered or rejected, leave the table as it was.
C30_Frame ==
    [][/\ event'.op \in {"add_string", "delete_strings"} =>
            Others(store', event'.value) = Others(store, event'.value)
       /\ event'.op \in {"add_string_check", "post_strings", "get_strings",
                         "query_strings", "natural_language_parsing"} =>
            store' = store]_vars

\* a delete removed a record while a record of another value was stored
C30_Witness ==
    /\ event.op = "delete_strings"
    /\ event.result
    /\ \E i \in DOMAIN store : store[i].name # event.value

====
